---- MODULE Spec2Model ----
(***************************************************************************)
(* Organization matching of hubspot-user-creator: normalizeCompanyName,    *)
(* calculateStringSimilarity / levenshteinDistance (src/lib/utils.ts),     *)
(* findBestMatch (api/create-user/route.ts) and rankCompaniesBySimilarity  *)
(* (api/admin/status/route.ts).                                            *)
(*                                                                         *)
(* A JavaScript string is a sequence of one-character strings.  A score is *)
(* the exact rational <<num, den>> of the double the code computes: the    *)
(* code only ever divides two small integers and compares the quotient     *)
(* with 0.6, 0.9 and 1.0, and IEEE division is correctly rounded, so the   *)
(* order of the doubles is the order of the rationals.                     *)
(***************************************************************************)
EXTENDS Integers, Sequences, FiniteSets

VARIABLES
    done,          \* the calls that have returned
    base,          \* normalize: the leading part of the raw name
    words,         \* normalize: the trailing words of the raw name
    name,          \* normalize: the raw name passed to normalizeCompanyName
    normalized,    \* normalize: normalizeCompanyName(name)
    renormalized,  \* normalize: normalizeCompanyName(normalized)
    str1,          \* similarity: first argument
    str2,          \* similarity: second argument
    similarity,    \* similarity: calculateStringSimilarity(str1, str2)
    swapped,       \* similarity: calculateStringSimilarity(str2, str1)
    searchTerm,    \* matcher: raw search term
    companies,     \* matcher: candidate list, records [id, name]
    matched,       \* matcher: what findBestMatch returned: <<company>>, or <<>> for null
    bestScore,     \* matcher: findBestMatch's bestScore when it returned
    normalizedSearch,  \* matcher: findBestMatch's normalizedSearch
    normalizedNames,   \* matcher: findBestMatch's normalizedCompanyName of each candidate
    similarities,      \* matcher: findBestMatch's similarity of each candidate
    scores,        \* matcher: findBestMatch's score of each candidate, in input order
    ranked,        \* matcher: what rankCompaniesBySimilarity returned
    request,       \* admin: the request: [pathname, cookie, bearer, limit, offset]
    stage,         \* admin: "received", "handler" (passed the middleware), "responded"
    handled,       \* admin: the endpoint handler has run for the request
    response,      \* admin: the response: [status, logs, total]
    auditLogs,     \* audit: the in-memory store, entries named by their order of logging
    logCount,      \* audit: the number of AuditLogger.log calls so far
    rateLimitStore,  \* rate limit: the timestamps kept for each client key
    now,           \* rate limit: Date.now() of the latest call
    callCount,     \* rate limit: the number of checkRateLimit calls so far
    allowedCalls,  \* rate limit: the calls that returned allowed, as [key, action, at]
    rateResult,    \* rate limit: what the latest call returned: [allowed, remaining]
    rateCalls,     \* rate limit: every call so far, as [key, action, at, allowed]
    handler,       \* contacts: what runs: "single" (createContact), "bulk" (bulk POST)
    users,         \* contacts: the users of the request, each by the kind of its data
    organization,  \* contacts: companyId and companyName: [id, name]; "none" and <<>>
                   \* when absent
    crmCompanies,  \* contacts: the companies in the CRM, as getPage returns them
    step,          \* contacts: where the handler is
    userIndex,     \* contacts: bulk: the loop's i, counted from 1
    apiResponse,   \* contacts: what the create call returned: [id], id 0 when absent
    crmCalls,      \* contacts: the CRM calls issued, in order, with their outcome
    contacts,      \* contacts: the contacts in the CRM: [id, email, associated]
    result,        \* contacts: bulk: result.successful and result.failed
    httpStatus     \* contacts: status of the response, 0 before it is sent

vars == <<done, base, words, name, normalized, renormalized, str1, str2,
          similarity, swapped, searchTerm, companies, matched, bestScore,
          normalizedSearch, normalizedNames, similarities, scores, ranked,
          request, stage, handled, response, auditLogs, logCount,
          rateLimitStore, now, callCount, allowedCalls, rateResult, rateCalls,
          handler, users, organization, crmCompanies, step, userIndex,
          apiResponse, crmCalls, contacts, result, httpStatus>>

normVars == <<base, words, name, normalized, renormalized>>
simVars == <<str1, str2, similarity, swapped>>
matchVars == <<searchTerm, companies, matched, bestScore, normalizedSearch,
               normalizedNames, similarities, scores, ranked>>
adminVars == <<request, stage, handled, response>>
auditVars == <<auditLogs, logCount>>
rateVars == <<rateLimitStore, now, callCount, allowedCalls, rateResult,
              rateCalls>>
contactVars == <<handler, users, organization, crmCompanies, step, userIndex,
                 apiResponse, crmCalls, contacts, result, httpStatus>>

\* the name matching functions, and the server state and handlers around them
coreVars == <<done, normVars, simVars, matchVars>>
opsVars == <<adminVars, auditVars, rateVars, contactVars>>

\* no request has arrived
NoRequest == [pathname |-> <<>>, cookie |-> "none", bearer |-> "none",
              limit |-> 0, offset |-> 0]
NoResponse == [status |-> 0, logs |-> <<>>, total |-> 0]

AdminIdle ==
    /\ request = NoRequest /\ stage = "idle" /\ handled = FALSE
    /\ response = NoResponse

\* let auditLogs: AuditLogEntry[] = []
AuditIdle == auditLogs = <<>> /\ logCount = 0

\* the client keys of the requests
Keys == {"client1", "client2"}

\* const rateLimitStore = new Map<string, number[]>(); a key that is not in the
\* map reads as []
RateIdle ==
    /\ rateLimitStore = [k \in Keys |-> <<>>]
    /\ now = 0 /\ callCount = 0 /\ allowedCalls = <<>>
    /\ rateResult = [allowed |-> FALSE, remaining |-> 0]
    /\ rateCalls = <<>>

\* no contact is being created
ContactIdle ==
    /\ handler = "none" /\ users = <<>>
    /\ organization = [id |-> "none", name |-> <<>>]
    /\ crmCompanies = <<>>
    /\ step = "idle" /\ userIndex = 0 /\ apiResponse = [id |-> 0]
    /\ crmCalls = <<>> /\ contacts = {}
    /\ result = [successful |-> 0, failed |-> 0]
    /\ httpStatus = 0

OpsIdle == AdminIdle /\ AuditIdle /\ RateIdle /\ ContactIdle

\* no name matching function has been called
CoreIdle ==
    /\ done = {}
    /\ base = <<>> /\ words = <<>> /\ name = <<>>
    /\ normalized = <<>> /\ renormalized = <<>>
    /\ str1 = <<>> /\ str2 = <<>>
    /\ similarity = <<0, 1>> /\ swapped = <<0, 1>>
    /\ searchTerm = <<>> /\ companies = <<>> /\ matched = <<>>
    /\ bestScore = <<0, 1>> /\ normalizedSearch = <<>>
    /\ normalizedNames = <<>> /\ similarities = <<>> /\ scores = <<>>
    /\ ranked = <<>>

-----------------------------------------------------------------------------
(* Characters and the String.prototype methods the code calls              *)

LowerLetters ==
    <<"a", "b", "c", "d", "e", "f", "g", "h", "i", "j", "k", "l", "m",
      "n", "o", "p", "q", "r", "s", "t", "u", "v", "w", "x", "y", "z">>

UpperLetters ==
    <<"A", "B", "C", "D", "E", "F", "G", "H", "I", "J", "K", "L", "M",
      "N", "O", "P", "Q", "R", "S", "T", "U", "V", "W", "X", "Y", "Z">>

Digits == {"0", "1", "2", "3", "4", "5", "6", "7", "8", "9"}

Range(f) == {f[i] : i \in DOMAIN f}

\* \s of a JavaScript regular expression, and what trim() removes
WhiteSpace == {" ", "\t", "\n", "\r"}

\* the characters "." of a regular expression does not match
LineTerminators == {"\n", "\r"}

\* \w of a JavaScript regular expression
WordChars == Range(LowerLetters) \cup Range(UpperLetters) \cup Digits \cup {"_"}

UpperSet == Range(UpperLetters)

\* the lowercase letter of each uppercase letter
LowerOf ==
    [c \in UpperSet |-> LowerLetters[CHOOSE i \in 1..26 : UpperLetters[i] = c]]

ToLowerChar(c) == IF c \in UpperSet THEN LowerOf[c] ELSE c

ToLowerCase(s) == [i \in 1..Len(s) |-> ToLowerChar(s[i])]

RECURSIVE TrimStart(_)
TrimStart(s) ==
    IF s # <<>> /\ s[1] \in WhiteSpace THEN TrimStart(Tail(s)) ELSE s

RECURSIVE TrimEnd(_)
TrimEnd(s) ==
    IF s # <<>> /\ s[Len(s)] \in WhiteSpace
    THEN TrimEnd(SubSeq(s, 1, Len(s) - 1))
    ELSE s

Trim(s) == TrimEnd(TrimStart(s))

\* str.startsWith(prefix)
StartsWith(str, prefix) ==
    /\ Len(prefix) <= Len(str)
    /\ SubSeq(str, 1, Len(prefix)) = prefix

-----------------------------------------------------------------------------
(* normalizeCompanyName                                                    *)

suffixes ==
    <<<<"i", "n", "c">>,
      <<"i", "n", "c", ".">>,
      <<"c", "o", "r", "p", "o", "r", "a", "t", "i", "o", "n">>,
      <<"c", "o", "r", "p">>,
      <<"c", "o", "r", "p", ".">>,
      <<"c", "o", "m", "p", "a", "n", "y">>,
      <<"c", "o">>,
      <<"c", "o", ".">>,
      <<"l", "t", "d">>,
      <<"l", "t", "d", ".">>,
      <<"l", "i", "m", "i", "t", "e", "d">>,
      <<"l", "l", "c">>,
      <<"l", ".", "l", ".", "c", ".">>,
      <<"l", "l", "p">>,
      <<"l", ".", "l", ".", "p", ".">>,
      <<"e", "n", "t", "e", "r", "p", "r", "i", "s", "e", "s">>,
      <<"g", "r", "o", "u", "p">>,
      <<"h", "o", "l", "d", "i", "n", "g", "s">>,
      <<"i", "n", "t", "e", "r", "n", "a", "t", "i", "o", "n", "a", "l">>,
      <<"i", "n", "t", "l">>>>

\* \b between s[p] and s[p+1]; outside the string counts as a non-word character
WordBoundary(s, p) ==
    LET isWord(i) == i \in 1..Len(s) /\ s[i] \in WordChars
    IN  isWord(p) # isWord(p + 1)

\* One element of the pattern source against one character under the flag i.
\* The suffix is interpolated into the pattern unescaped, so its "." is the
\* wildcard of the regular expression.
PatternCharMatches(pc, c) ==
    IF pc = "." THEN c \notin LineTerminators
    ELSE ToLowerChar(pc) = ToLowerChar(c)

\* new RegExp(`\\b${suffix}\\b$`, 'i') matches s.  The pattern has a fixed
\* length and is anchored at the end of the input, so the only place it can
\* match is the last Len(suffix) characters.
SuffixPatternMatches(s, suffix) ==
    LET n == Len(s)
        k == Len(suffix)
    IN  /\ k <= n
        /\ WordBoundary(s, n - k)
        /\ \A i \in 1..k : PatternCharMatches(suffix[i], s[n - k + i])
        /\ WordBoundary(s, n)

\* a replacement that is not followed by trim()
StripSuffixNoTrim(s, suffix) ==
    IF SuffixPatternMatches(s, suffix)
    THEN SubSeq(s, 1, Len(s) - Len(suffix))
    ELSE s

\* normalized.replace(pattern, '').trim()
StripSuffix(s, suffix) ==
    IF SuffixPatternMatches(s, suffix)
    THEN Trim(SubSeq(s, 1, Len(s) - Len(suffix)))
    ELSE Trim(s)

\* for (const suffix of suffixes) { ... }, from the i-th suffix on
RECURSIVE StripSuffixes(_, _)
StripSuffixes(s, i) ==
    IF i > Len(suffixes) THEN s
    ELSE StripSuffixes(StripSuffix(s, suffixes[i]), i + 1)

\* normalized.replace(/\s+/g, ' ')
RECURSIVE CollapseWhitespace(_)
CollapseWhitespace(s) ==
    IF s = <<>> THEN <<>>
    ELSE IF s[1] \in WhiteSpace
         THEN IF Len(s) > 1 /\ s[2] \in WhiteSpace
              THEN CollapseWhitespace(Tail(s))
              ELSE <<" ">> \o CollapseWhitespace(Tail(s))
         ELSE <<s[1]>> \o CollapseWhitespace(Tail(s))

normalizeCompanyName(raw) ==
    CollapseWhitespace(StripSuffixes(ToLowerCase(Trim(raw)), 1))

-----------------------------------------------------------------------------
(* calculateStringSimilarity and levenshteinDistance                       *)

Min2(a, b) == IF a <= b THEN a ELSE b

\* a substitution that is charged even when the two characters are equal
IndicatorAlwaysOne(c1, c2) == 1

\* const indicator = str1[i - 1] === str2[j - 1] ? 0 : 1
Indicator(c1, c2) == IF c1 = c2 THEN 0 ELSE 1

\* One row j >= 1 of the matrix, cells 0..Len(s1) kept at positions 1..Len(s1)+1,
\* filled left to right from the row above.
RECURSIVE FillRow(_, _, _, _, _)
FillRow(s1, s2, j, above, row) ==
    LET i == Len(row)
    IN  IF i > Len(s1) THEN row
        ELSE LET cell == Min2(Min2(row[i] + 1, above[i + 1] + 1),
                              above[i] + Indicator(s1[i], s2[j]))
             IN  FillRow(s1, s2, j, above, Append(row, cell))

\* The rows 1..Len(s2) in order; the value is the last row.
RECURSIVE FillMatrix(_, _, _, _)
FillMatrix(s1, s2, j, above) ==
    IF j > Len(s2) THEN above
    ELSE FillMatrix(s1, s2, j + 1, FillRow(s1, s2, j, above, <<j>>))

levenshteinDistance(s1, s2) ==
    FillMatrix(s1, s2, 1, [i \in 1..(Len(s1) + 1) |-> i - 1])[Len(s1) + 1]

\* a similarity that subtracts the distance from the length of the shorter
\* string
calculateStringSimilarityOfShorter(a, b) ==
    LET s1 == Trim(ToLowerCase(a))
        s2 == Trim(ToLowerCase(b))
        longer == IF Len(s1) > Len(s2) THEN s1 ELSE s2
        shorter == IF Len(s1) > Len(s2) THEN s2 ELSE s1
    IN  IF s1 = s2 THEN <<1, 1>>
        ELSE IF Len(longer) = 0 THEN <<1, 1>>
        ELSE <<Len(shorter) - levenshteinDistance(longer, shorter), Len(longer)>>

\* a similarity that takes its first argument for the longer string
calculateStringSimilarityOfFirst(a, b) ==
    LET s1 == Trim(ToLowerCase(a))
        s2 == Trim(ToLowerCase(b))
    IN  IF s1 = s2 THEN <<1, 1>>
        ELSE IF Len(s1) = 0 THEN <<1, 1>>
        ELSE <<Len(s1) - levenshteinDistance(s1, s2), Len(s1)>>

\* a similarity that compares the letters as they are written
calculateStringSimilarityCaseSensitive(a, b) ==
    LET s1 == Trim(a)
        s2 == Trim(b)
        longer == IF Len(s1) > Len(s2) THEN s1 ELSE s2
        shorter == IF Len(s1) > Len(s2) THEN s2 ELSE s1
    IN  IF s1 = s2 THEN <<1, 1>>
        ELSE IF Len(longer) = 0 THEN <<1, 1>>
        ELSE <<Len(longer) - levenshteinDistance(longer, shorter), Len(longer)>>

\* a similarity whose empty-string guard looks at the shorter string
calculateStringSimilarityEmptyShorter(a, b) ==
    LET s1 == Trim(ToLowerCase(a))
        s2 == Trim(ToLowerCase(b))
        longer == IF Len(s1) > Len(s2) THEN s1 ELSE s2
        shorter == IF Len(s1) > Len(s2) THEN s2 ELSE s1
    IN  IF s1 = s2 THEN <<1, 1>>
        ELSE IF Len(shorter) = 0 THEN <<1, 1>>
        ELSE <<Len(longer) - levenshteinDistance(longer, shorter), Len(longer)>>

\* const s1 = str1.toLowerCase().trim(); ... return (longer.length -
\* editDistance) / longer.length
calculateStringSimilarity(a, b) ==
    LET s1 == Trim(ToLowerCase(a))
        s2 == Trim(ToLowerCase(b))
        longer == IF Len(s1) > Len(s2) THEN s1 ELSE s2
        shorter == IF Len(s1) > Len(s2) THEN s2 ELSE s1
    IN  IF s1 = s2 THEN <<1, 1>>
        ELSE IF Len(longer) = 0 THEN <<1, 1>>
        ELSE <<Len(longer) - levenshteinDistance(longer, shorter), Len(longer)>>

\* order and equality of scores
Less(x, y) == x[1] * y[2] < y[1] * x[2]
AtLeast(x, y) == ~Less(x, y)
Same(x, y) == x[1] * y[2] = y[1] * x[2]
MaxScore(x, y) == IF Less(x, y) THEN y ELSE x

-----------------------------------------------------------------------------
(* Inputs of normalizeCompanyName                                          *)

MaxSuffixWords == 2

NormBases ==
    { <<>>,
      <<"A", "c", "m", "e">>,
      <<"F", "o", "o", " ", " ", "B", "a", "r">>,
      <<"\t", "B", "o", " ", "\t", "X", " ">>,
      <<"c", "o", "s", "t", "c", "o">> }

NearTokens ==
    { <<"i", "n", "c", "s">>, <<"c", "o", "r", "p", "s">>,
      <<"c", "o", "x">>, <<"l", "t", "d", "a">> }

NormWords ==
    Range(suffixes) \cup NearTokens
        \cup { <<"I", "N", "C">>, <<"C", "o", "r", "p", ".">> }

RECURSIVE JoinWords(_, _)
JoinWords(b, ws) ==
    IF ws = <<>> THEN b
    ELSE JoinWords(IF b = <<>> THEN Head(ws) ELSE b \o <<" ">> \o Head(ws),
                   Tail(ws))

WordLists == UNION {[1..n -> NormWords] : n \in 0..MaxSuffixWords}

InitNormalize ==
    /\ done = {}
    /\ OpsIdle
    /\ base \in NormBases
    /\ words \in WordLists
    /\ name = JoinWords(base, words)
    /\ normalized = <<>>
    /\ renormalized = <<>>
    /\ str1 = <<>> /\ str2 = <<>> /\ similarity = <<0, 1>> /\ swapped = <<0, 1>>
    /\ searchTerm = <<>> /\ companies = <<>> /\ matched = <<>>
    /\ bestScore = <<0, 1>> /\ normalizedSearch = <<>>
    /\ normalizedNames = <<>> /\ similarities = <<>> /\ scores = <<>>
    /\ ranked = <<>>

Normalize ==
    /\ "normalize" \notin done
    /\ normalized' = normalizeCompanyName(name)
    /\ done' = done \cup {"normalize"}
    /\ UNCHANGED <<base, words, name, renormalized, simVars, matchVars, opsVars>>

Renormalize ==
    /\ "normalize" \in done
    /\ "renormalize" \notin done
    /\ renormalized' = normalizeCompanyName(normalized)
    /\ done' = done \cup {"renormalize"}
    /\ UNCHANGED <<base, words, name, normalized, simVars, matchVars, opsVars>>

NextNormalize == Normalize \/ Renormalize

SpecNormalize == InitNormalize /\ [][NextNormalize]_vars

-----------------------------------------------------------------------------
(* Claims about normalizeCompanyName (under SpecNormalize)                 *)

\* the last whitespace-delimited word of s (<<>> when s has none)
LastWord(s) ==
    LET t == Trim(s)
        gaps == {i \in 1..Len(t) : t[i] \in WhiteSpace}
    IN  IF gaps = {} THEN t
        ELSE SubSeq(t, (CHOOSE i \in gaps : \A j \in gaps : i >= j) + 1, Len(t))

\* s without its last whitespace-delimited word
ButLastWord(s) ==
    LET t == Trim(s)
    IN  Trim(SubSeq(t, 1, Len(t) - Len(LastWord(t))))

\* some whitespace-delimited word of s is a token of the vocabulary
RECURSIVE ContainsToken(_)
ContainsToken(s) ==
    /\ Trim(s) # <<>>
    /\ \/ ToLowerCase(LastWord(s)) \in Range(suffixes)
       \/ ContainsToken(ButLastWord(s))

\* C4: normalizeCompanyName is idempotent: normalizing its own output
\* changes nothing, whatever the order of stacked suffixes.
NormalizeIdempotent ==
    "renormalize" \in done => renormalized = normalized

\* C5: a token-free base name followed by one vocabulary suffix (dotted forms
\* included) normalizes to what the base name alone normalizes to; and
\* normalize("Acme Corp.") = "acme".
SuffixTokenRemoved ==
    "normalize" \in done =>
        /\ (/\ Len(words) = 1
            /\ ToLowerCase(words[1]) \in Range(suffixes)
            /\ ~ContainsToken(base))
               => normalized = normalizeCompanyName(base)
        /\ name = <<"A", "c", "m", "e", " ", "C", "o", "r", "p", ".">>
               => normalized = <<"a", "c", "m", "e">>

\* C6: a name whose last word is not a token of the vocabulary keeps that
\* last word.
NonTokenLastWordKept ==
    ("normalize" \in done /\ ToLowerCase(LastWord(name)) \notin Range(suffixes))
        => LastWord(normalized) = ToLowerCase(LastWord(name))

\* s has no uppercase letter, no whitespace at either end, and no whitespace
\* inside other than single spaces between two other characters
WellShaped(s) ==
    \A i \in 1..Len(s) :
        /\ s[i] \notin UpperSet
        /\ s[i] \in WhiteSpace =>
               /\ s[i] = " "
               /\ 1 < i /\ i < Len(s)
               /\ s[i + 1] \notin WhiteSpace

\* C14: the output of normalizeCompanyName has no uppercase letter, no leading
\* or trailing whitespace and no two adjacent whitespace characters (every
\* internal run of whitespace is one space), also when stripping a suffix
\* leaves whitespace behind.
NormalizedWellShaped ==
    /\ "normalize" \in done => WellShaped(normalized)
    /\ "renormalize" \in done => WellShaped(renormalized)

\* C14 witness: a name with uppercase letters, whitespace around it and a tab
\* next to a space inside, whose suffix is stripped
WellShapedWitness ==
    /\ "normalize" \in done
    /\ name = <<"\t", "B", "o", " ", "\t", "X", " ", " ", "I", "N", "C">>
    /\ normalized = <<"b", "o", " ", "x">>

-----------------------------------------------------------------------------
(* Inputs of calculateStringSimilarity                                     *)

MaxStrLen == 3

SimAlphabet == {"a", "b", "A", " "}

SimStrings == UNION {[1..n -> SimAlphabet] : n \in 0..MaxStrLen}

InitSimilarity ==
    /\ done = {}
    /\ OpsIdle
    /\ str1 \in SimStrings
    /\ str2 \in SimStrings
    /\ similarity = <<0, 1>> /\ swapped = <<0, 1>>
    /\ base = <<>> /\ words = <<>> /\ name = <<>>
    /\ normalized = <<>> /\ renormalized = <<>>
    /\ searchTerm = <<>> /\ companies = <<>> /\ matched = <<>>
    /\ bestScore = <<0, 1>> /\ normalizedSearch = <<>>
    /\ normalizedNames = <<>> /\ similarities = <<>> /\ scores = <<>>
    /\ ranked = <<>>

Similarity ==
    /\ "similarity" \notin done
    /\ similarity' = calculateStringSimilarity(str1, str2)
    /\ done' = done \cup {"similarity"}
    /\ UNCHANGED <<str1, str2, swapped, normVars, matchVars, opsVars>>

\* the same two strings passed in the other order
SimilaritySwapped ==
    /\ "swapped" \notin done
    /\ swapped' = calculateStringSimilarity(str2, str1)
    /\ done' = done \cup {"swapped"}
    /\ UNCHANGED <<str1, str2, similarity, normVars, matchVars, opsVars>>

NextSimilarity == Similarity \/ SimilaritySwapped

SpecSimilarity == InitSimilarity /\ [][NextSimilarity]_vars

-----------------------------------------------------------------------------
(* Claims about calculateStringSimilarity (under SpecSimilarity)           *)

\* the minimum number of single-character insertions, deletions and
\* substitutions that turn a into b, by the recursive definition
RECURSIVE EditDistance(_, _)
EditDistance(a, b) ==
    IF a = <<>> THEN Len(b)
    ELSE IF b = <<>> THEN Len(a)
    ELSE IF Head(a) = Head(b) THEN EditDistance(Tail(a), Tail(b))
    ELSE 1 + Min2(Min2(EditDistance(Tail(a), b), EditDistance(a, Tail(b))),
                  EditDistance(Tail(a), Tail(b)))

\* C10: calculateStringSimilarity(a, b) = (len(longer) - d) / len(longer), d the
\* true edit distance of the lowercased, trimmed inputs, and 1 when both are
\* empty.
SimilarityIsEditDistanceRatio ==
    "similarity" \in done =>
        LET s1 == Trim(ToLowerCase(str1))
            s2 == Trim(ToLowerCase(str2))
            longest == IF Len(s1) > Len(s2) THEN Len(s1) ELSE Len(s2)
        IN  IF longest = 0 THEN similarity = <<1, 1>>
            ELSE /\ similarity[2] > 0
                 /\ Same(similarity, <<longest - EditDistance(s1, s2), longest>>)

\* C10 witness: two inputs of different lengths that need a substitution and
\* an insertion, scored strictly between 0 and 1
SimilarityWitness ==
    /\ "similarity" \in done
    /\ Len(Trim(ToLowerCase(str1))) # Len(Trim(ToLowerCase(str2)))
    /\ EditDistance(Trim(ToLowerCase(str1)), Trim(ToLowerCase(str2))) = 2
    /\ Less(<<0, 1>>, similarity)
    /\ Less(similarity, <<1, 1>>)

-----------------------------------------------------------------------------
(* findBestMatch and rankCompaniesBySimilarity                             *)

\* a prefix boost that reaches the score of an exact match
PrefixBoostOne == <<1, 1>>

\* score = Math.max(score, 0.9)
PrefixBoost == <<9, 10>>

\* bestScore >= 0.6
Threshold == <<3, 5>>

\* a score that is boosted only when the names are equal
ScoreNoPrefixBoost(search, companyName, sim) ==
    IF companyName = search THEN <<1, 1>> ELSE sim

\* a score that is boosted when either name starts with the other
ScoreBoostBothWays(search, companyName, sim) ==
    IF companyName = search THEN <<1, 1>>
    ELSE IF StartsWith(companyName, search) \/ StartsWith(search, companyName)
         THEN MaxScore(sim, PrefixBoost)
         ELSE sim

\* let score = similarity; if (===) score = 1.0; else if (startsWith) score =
\* Math.max(score, 0.9): the score of a candidate from the two normalized
\* names and their similarity
Score(search, companyName, sim) ==
    IF companyName = search THEN <<1, 1>>
    ELSE IF StartsWith(companyName, search) THEN MaxScore(sim, PrefixBoost)
         ELSE sim

\* a later candidate that replaces the best one on an equal score
ImprovesOrTies(score, best) == AtLeast(score, best)

\* if (score > bestScore)
Improves(score, best) == Less(best, score)

\* a threshold the best score has to exceed
AcceptsStrictly(best) == Less(Threshold, best)

\* a threshold of one half
AcceptsHalf(best) == AtLeast(best, <<1, 2>>)

\* bestScore >= 0.6
Accepts(best) == AtLeast(best, Threshold)

\* for (const company of companies) { ... }, from the i-th company on; st holds
\* bestMatch and bestScore, and the locals of the iterations so far
RECURSIVE BestMatchLoop(_, _, _, _)
BestMatchLoop(cs, search, i, st) ==
    IF i > Len(cs) THEN st
    ELSE LET companyName == normalizeCompanyName(cs[i].name)
             sim == calculateStringSimilarity(search, companyName)
             score == Score(search, companyName, sim)
             better == Improves(score, st.bestScore)
         IN  BestMatchLoop(cs, search, i + 1,
                 [bestMatch |-> IF better THEN cs[i] ELSE st.bestMatch,
                  bestScore |-> IF better THEN score ELSE st.bestScore,
                  names |-> Append(st.names, companyName),
                  sims |-> Append(st.sims, sim),
                  scores |-> Append(st.scores, score)])

\* findBestMatch: the value returned (<<company>>, or <<>> for null) and the
\* locals when it returns; on the early return nothing has been computed
findBestMatch(cs, term) ==
    IF Len(cs) = 0
    THEN [returned |-> <<>>, bestScore |-> <<0, 1>>, search |-> <<>>,
          names |-> <<>>, sims |-> <<>>, scores |-> <<>>]
    ELSE LET search == normalizeCompanyName(term)
             st == BestMatchLoop(cs, search, 1,
                       [bestMatch |-> cs[1], bestScore |-> <<0, 1>>,
                        names |-> <<>>, sims |-> <<>>, scores |-> <<>>])
         IN  [returned |-> IF Accepts(st.bestScore) THEN <<st.bestMatch>>
                           ELSE <<>>,
              bestScore |-> st.bestScore, search |-> search,
              names |-> st.names, sims |-> st.sims, scores |-> st.scores]

\* the companies with their score: companies.map(company => ...)
Scored(cs, term) ==
    LET search == normalizeCompanyName(term)
        entry(company) ==
            LET companyName == normalizeCompanyName(company.name)
            IN  [id |-> company.id, name |-> company.name,
                 similarity |->
                     Score(search, companyName,
                           calculateStringSimilarity(search, companyName))]
    IN  [i \in 1..Len(cs) |-> entry(cs[i])]

\* .filter(company => company.similarity >= 0.6)
RECURSIVE FilterScored(_)
FilterScored(es) ==
    IF es = <<>> THEN <<>>
    ELSE IF AtLeast(Head(es).similarity, <<3, 5>>)
         THEN <<Head(es)>> \o FilterScored(Tail(es))
         ELSE FilterScored(Tail(es))

\* e put into the descending list sorted, behind the entries that compare equal
RECURSIVE InsertByScore(_, _)
InsertByScore(e, sorted) ==
    IF sorted = <<>> THEN <<e>>
    ELSE IF Less(Head(sorted).similarity, e.similarity)
         THEN <<e>> \o sorted
         ELSE <<Head(sorted)>> \o InsertByScore(e, Tail(sorted))

\* .sort((a, b) => b.similarity - a.similarity): descending and stable
RECURSIVE SortByScore(_, _)
SortByScore(es, sorted) ==
    IF es = <<>> THEN sorted
    ELSE SortByScore(Tail(es), InsertByScore(Head(es), sorted))

\* .slice(0, n)
Slice(es, n) == SubSeq(es, 1, IF Len(es) < n THEN Len(es) ELSE n)

rankCompaniesBySimilarity(cs, term) ==
    Slice(SortByScore(FilterScored(Scored(cs, term)), <<>>), 5)

-----------------------------------------------------------------------------
(* Inputs of the matcher                                                   *)

MaxCompanies == 2

CompanyNames ==
    { <<"A", "c", "m", "e", " ", "C", "o", "r", "p", "o", "r", "a", "t", "i", "o", "n">>,
      <<"A", "c", "m", "e", " ", "C", "o", "r", "p", " ", "H", "o", "l", "d", "i", "n", "g", "s">>,
      <<"A", "C", "M", "E">>,
      <<"A", "c", "n", "e">>,
      <<"A", "c", "m", "a">>,
      <<"A", "c">>,
      <<"A", "c", "m", "e", " ", "S", "y", "s", "t", "e", "m", "s">>,
      <<"Z", "y", "l", "o", " ", "S", "y", "s", "t", "e", "m", "s">>,
      <<"Z", "y", "l", "e", "m">>,
      <<"L", "L", "C">>,
      <<>> }

SearchTerms ==
    { <<"A", "c", "m", "e">>,
      <<"A", "C", "M", "E", " ", "I", "N", "C">>,
      <<"A", "c", "m", "e", " ", "S", "y", "s", "t", "e", "m", "s", " ", "I", "n", "c">>,
      <<"A", "c">>,
      <<"Z", "y", "l", "o", "s">>,
      <<"I", "n", "c">>,
      <<>> }

\* the candidate lists: the i-th company has id i
CompanyLists ==
    UNION {[1..n -> CompanyNames] : n \in 0..MaxCompanies}

Init ==
    /\ done = {}
    /\ OpsIdle
    /\ searchTerm \in SearchTerms
    /\ \E names \in CompanyLists :
           companies = [i \in 1..Len(names) |-> [id |-> i, name |-> names[i]]]
    /\ matched = <<>> /\ bestScore = <<0, 1>> /\ normalizedSearch = <<>>
    /\ normalizedNames = <<>> /\ similarities = <<>> /\ scores = <<>>
    /\ ranked = <<>>
    /\ base = <<>> /\ words = <<>> /\ name = <<>>
    /\ normalized = <<>> /\ renormalized = <<>>
    /\ str1 = <<>> /\ str2 = <<>> /\ similarity = <<0, 1>> /\ swapped = <<0, 1>>

\* findBestMatch(companies, searchTerm)
FindBestMatch ==
    /\ "findBestMatch" \notin done
    /\ \E r \in {findBestMatch(companies, searchTerm)} :
           /\ matched' = r.returned
           /\ bestScore' = r.bestScore
           /\ normalizedSearch' = r.search
           /\ normalizedNames' = r.names
           /\ similarities' = r.sims
           /\ scores' = r.scores
    /\ done' = done \cup {"findBestMatch"}
    /\ UNCHANGED <<searchTerm, companies, ranked, normVars, simVars, opsVars>>

\* rankCompaniesBySimilarity(companies, searchTerm)
RankCompanies ==
    /\ "rank" \notin done
    /\ ranked' = rankCompaniesBySimilarity(companies, searchTerm)
    /\ done' = done \cup {"rank"}
    /\ UNCHANGED <<searchTerm, companies, matched, bestScore, normalizedSearch,
                   normalizedNames, similarities, scores, normVars, simVars, opsVars>>

Next == FindBestMatch \/ RankCompanies

Spec == Init /\ [][Next]_vars

-----------------------------------------------------------------------------
(* Claims about findBestMatch and rankCompaniesBySimilarity (under Spec)   *)

Found == "findBestMatch" \in done
Ranked == "rank" \in done
Candidates == 1..Len(companies)

\* the candidate's name starts with the search term without being equal to it
ProperPrefixMatch(i) ==
    /\ StartsWith(normalizedNames[i], normalizedSearch)
    /\ normalizedNames[i] # normalizedSearch

\* the final score as the matcher's contract words it: the similarity, 1.0 on
\* equal normalized names, max(similarity, 0.9) on a prefix match
FinalScore(i) ==
    IF normalizedNames[i] = normalizedSearch THEN <<1, 1>>
    ELSE IF ProperPrefixMatch(i) /\ Less(similarities[i], <<9, 10>>)
         THEN <<9, 10>>
         ELSE similarities[i]

\* C1: findBestMatch returns a company exactly when some candidate's final
\* score is at least 0.6; the returned company is a candidate with such a
\* score, and the empty list gives null.
MatchIffThresholdReached ==
    Found =>
        /\ (matched # <<>>) <=>
               (\E i \in Candidates : AtLeast(FinalScore(i), <<3, 5>>))
        /\ matched # <<>> =>
               /\ matched[1].id \in Candidates
               /\ companies[matched[1].id] = matched[1]
               /\ AtLeast(FinalScore(matched[1].id), <<3, 5>>)
               /\ AtLeast(bestScore, <<3, 5>>)
        /\ companies = <<>> => matched = <<>>

\* C1 witness: a match accepted at exactly 0.6 next to a candidate below it
ThresholdWitness ==
    /\ Found
    /\ matched # <<>>
    /\ Same(bestScore, <<3, 5>>)
    /\ \E i \in Candidates : Less(FinalScore(i), <<3, 5>>)

\* C2: the company returned is the first one, in input order, among the
\* candidates with the maximum score.
FirstOfTheBestWins ==
    (Found /\ matched # <<>>) =>
        /\ \A j \in Candidates : AtLeast(scores[matched[1].id], scores[j])
        /\ \A j \in Candidates :
               j < matched[1].id => Less(scores[j], scores[matched[1].id])

\* C2 witness: a later candidate of another name ties with the one returned
TieWitness ==
    /\ Found
    /\ matched # <<>>
    /\ \E j \in Candidates :
           /\ j > matched[1].id
           /\ Same(scores[j], scores[matched[1].id])
           /\ companies[j].name # matched[1].name

\* C3: when some candidate's normalized name equals the normalized search
\* term, the first such candidate is returned with score 1.0.
ExactMatchWins ==
    (Found /\ \E i \in Candidates : normalizedNames[i] = normalizedSearch) =>
        LET first == CHOOSE i \in Candidates :
                         /\ normalizedNames[i] = normalizedSearch
                         /\ \A j \in Candidates :
                                normalizedNames[j] = normalizedSearch => i <= j
        IN  /\ matched = <<companies[first]>>
            /\ Same(bestScore, <<1, 1>>)

\* C3 witness: an exact match that differs from the search term in case and
\* suffix, returned from behind a prefix match
ExactMatchWitness ==
    /\ Found
    /\ Len(companies) >= 2
    /\ ProperPrefixMatch(1)
    /\ normalizedNames[2] = normalizedSearch
    /\ ToLowerCase(companies[2].name) # ToLowerCase(searchTerm)
    /\ matched = <<companies[2]>>

\* similarity of a ranked entry to the search term, and whether its normalized
\* name starts with the normalized search term
EntrySimilarity(e) ==
    calculateStringSimilarity(normalizeCompanyName(searchTerm),
                              normalizeCompanyName(e.name))
EntryStartsWithSearch(e) ==
    StartsWith(normalizeCompanyName(e.name), normalizeCompanyName(searchTerm))
EntryEqualsSearch(e) ==
    normalizeCompanyName(e.name) = normalizeCompanyName(searchTerm)

\* C7: a candidate whose normalized name starts with the normalized search
\* term without being equal to it scores max(similarity, 0.9), in findBestMatch
\* and in rankCompaniesBySimilarity, and with such a candidate in the list
\* findBestMatch returns a company with score at least 0.9.
PrefixMatchBoosted ==
    /\ Found =>
          /\ \A i \in Candidates :
                 ProperPrefixMatch(i) =>
                     Same(scores[i], MaxScore(similarities[i], <<9, 10>>))
          /\ (\E i \in Candidates : ProperPrefixMatch(i)) =>
                 (matched # <<>> /\ AtLeast(bestScore, <<9, 10>>))
    /\ Ranked =>
          \A k \in 1..Len(ranked) :
              (EntryStartsWithSearch(ranked[k]) /\ ~EntryEqualsSearch(ranked[k]))
                  => Same(ranked[k].similarity,
                          MaxScore(EntrySimilarity(ranked[k]), <<9, 10>>))

\* C7 witness: a prefix match of low similarity lifted to 0.9 and returned
PrefixBoostWitness ==
    /\ Found
    /\ Ranked
    /\ matched # <<>>
    /\ ProperPrefixMatch(matched[1].id)
    /\ Less(similarities[matched[1].id], <<3, 5>>)
    /\ Same(bestScore, <<9, 10>>)
    /\ \E k \in 1..Len(ranked) :
           ranked[k].id = matched[1].id /\ Same(ranked[k].similarity, <<9, 10>>)

\* C8 as stated: whenever one of the two normalized names is a leading
\* substring of the other, the candidate's score is at least 0.9.
PrefixBoostBothDirections ==
    Found =>
        \A i \in Candidates :
            (\/ StartsWith(normalizedNames[i], normalizedSearch)
             \/ StartsWith(normalizedSearch, normalizedNames[i]))
                => AtLeast(scores[i], <<9, 10>>)

\* C8 as amended: the boost applies in one direction.  A candidate whose
\* normalized name starts with the normalized search term scores at least 0.9;
\* a candidate whose normalized name is a proper prefix of the normalized
\* search term scores its plain similarity.
PrefixBoostOneDirection ==
    Found =>
        \A i \in Candidates :
            /\ StartsWith(normalizedNames[i], normalizedSearch)
                   => AtLeast(scores[i], <<9, 10>>)
            /\ (/\ StartsWith(normalizedSearch, normalizedNames[i])
                /\ normalizedNames[i] # normalizedSearch)
                   => Same(scores[i], similarities[i])

\* C8 witness: a candidate that is a proper, non-empty prefix of the search
\* term and scores below 0.9
ReversePrefixWitness ==
    /\ Found
    /\ \E i \in Candidates :
           /\ normalizedNames[i] # <<>>
           /\ StartsWith(normalizedSearch, normalizedNames[i])
           /\ normalizedNames[i] # normalizedSearch
           /\ Less(scores[i], <<9, 10>>)

MatchHasPositiveEvidence ==
    (Found /\ matched # <<>>) =>
        LET i == matched[1].id
        IN  \/ normalizedNames[i] = normalizedSearch
            \/ AtLeast(similarities[i], Threshold)
            \/ /\ normalizedSearch # <<>>
               /\ StartsWith(normalizedNames[i], normalizedSearch)

-----------------------------------------------------------------------------
(* calculateStringSimilarity on its own inputs together with the matcher   *)
(* on its own: every place a similarity or a score is computed             *)

InitScores == InitSimilarity \/ Init

\* one function is called at a time, on the inputs drawn for it
NextScores ==
    \/ (companies = <<>> /\ searchTerm = <<>> /\ NextSimilarity)
    \/ (str1 = <<>> /\ str2 = <<>> /\ Next)

SpecScores == InitScores /\ [][NextScores]_vars

\* a score that is a number between 0 and 1
InUnitInterval(x) == x[2] > 0 /\ 0 <= x[1] /\ x[1] <= x[2]

\* C11: calculateStringSimilarity(a, b) lies in [0, 1] for all strings, and so
\* does every final score of findBestMatch and rankCompaniesBySimilarity,
\* after the exact-match override and the prefix boost.
ScoresInUnitInterval ==
    /\ "similarity" \in done => InUnitInterval(similarity)
    /\ "swapped" \in done => InUnitInterval(swapped)
    /\ Found =>
           /\ InUnitInterval(bestScore)
           /\ \A i \in 1..Len(scores) :
                  InUnitInterval(similarities[i]) /\ InUnitInterval(scores[i])
    /\ Ranked => \A k \in 1..Len(ranked) : InUnitInterval(ranked[k].similarity)

\* C11 witness: a candidate of similarity 0 boosted to 0.9, next to an exact
\* match of score 1, both ranked
UnitIntervalWitness ==
    /\ Found /\ Ranked
    /\ \E i \in 1..Len(scores) :
           similarities[i][1] = 0 /\ Same(scores[i], <<9, 10>>)
    /\ \E i \in 1..Len(scores) : Same(scores[i], <<1, 1>>)
    /\ Len(ranked) = 2

-----------------------------------------------------------------------------
(* Further claims about calculateStringSimilarity (under SpecSimilarity)   *)

\* C12: calculateStringSimilarity(a, b) = calculateStringSimilarity(b, a),
\* also for two strings of the same length and when one of them is empty.
SimilaritySymmetric ==
    ("similarity" \in done /\ "swapped" \in done) =>
        /\ similarity[2] > 0 /\ swapped[2] > 0
        /\ Same(similarity, swapped)

\* C12 witness: two different strings of the same length after lowercasing
\* and trimming, scored in both orders
SymmetryWitness ==
    /\ "similarity" \in done /\ "swapped" \in done
    /\ Len(Trim(ToLowerCase(str1))) = Len(Trim(ToLowerCase(str2)))
    /\ Trim(ToLowerCase(str1)) # Trim(ToLowerCase(str2))
    /\ Len(str1) # Len(str2)
    /\ Less(<<0, 1>>, similarity)

\* C13: calculateStringSimilarity(s, s) = 1, also for the empty string, and
\* the result is 1 for two strings that differ only in letter case or in
\* leading and trailing whitespace.
SimilarityOfEqualIsOne ==
    ("similarity" \in done
        /\ Trim(ToLowerCase(str1)) = Trim(ToLowerCase(str2)))
    => similarity = <<1, 1>>

\* C13 witness: two non-empty strings that differ in case and in the
\* whitespace around them, scored 1
EqualUpToCaseWitness ==
    /\ "similarity" \in done
    /\ str1 # str2
    /\ ToLowerCase(str1) # ToLowerCase(str2)
    /\ Trim(str1) # Trim(str2)
    /\ Trim(ToLowerCase(str1)) = Trim(ToLowerCase(str2))
    /\ Trim(ToLowerCase(str1)) # <<>>
    /\ similarity = <<1, 1>>

-----------------------------------------------------------------------------
(* Further claims about findBestMatch (under Spec)                         *)

\* C15: findBestMatch is total: for every search term (the empty one and those
\* that normalize to the empty string included) and every candidate list
\* (empty and suffix-only names included) it returns one of the candidates or
\* null; a candidate whose normalized name is empty is scored, not skipped,
\* and is never returned when the normalized search term is not empty.
FindBestMatchTotal ==
    Found =>
        /\ \/ matched = <<>>
           \/ /\ Len(matched) = 1
              /\ \E i \in Candidates : matched[1] = companies[i]
        /\ companies # <<>> =>
               /\ Len(normalizedNames) = Len(companies)
               /\ Len(scores) = Len(companies)
               /\ \A i \in Candidates :
                      (normalizedNames[i] = <<>> /\ normalizedSearch # <<>>)
                          => /\ InUnitInterval(scores[i])
                             /\ scores[i][1] = 0
                             /\ matched # <<companies[i]>>

\* C15 witness: an empty name and a suffix-only name among the candidates of a
\* search term that does not normalize to the empty string, both scored 0, and
\* null returned
EmptyNameScoredWitness ==
    /\ Found
    /\ normalizedSearch # <<>>
    /\ Len(companies) = 2
    /\ companies[1].name = <<>>
    /\ companies[2].name # <<>> /\ normalizedNames[2] = <<>>
    /\ scores[1][1] = 0 /\ scores[2][1] = 0
    /\ matched = <<>>

-----------------------------------------------------------------------------
(* AuditLogger: the in-memory audit log                                    *)

\* if (auditLogs.length > 1000) auditLogs = auditLogs.slice(0, 1000)
MaxAuditLogs == 1000

\* the log calls a run makes beyond MaxAuditLogs
MaxExtraLogs == 2

\* a log that drops its newest entries when it is full
logKeepingOldest(logs, auditEntry) ==
    LET unshifted == <<auditEntry>> \o logs
    IN  IF Len(unshifted) > MaxAuditLogs
        THEN SubSeq(unshifted, Len(unshifted) - MaxAuditLogs + 1, Len(unshifted))
        ELSE unshifted

\* AuditLogger.log: auditLogs.unshift(auditEntry), then the truncation; the
\* value of auditLogs afterwards
log(logs, auditEntry) ==
    LET unshifted == <<auditEntry>> \o logs
    IN  IF Len(unshifted) > MaxAuditLogs
        THEN SubSeq(unshifted, 1, MaxAuditLogs)
        ELSE unshifted

\* AuditLogger.getAuditLogs(limit, offset, {}): no field of the filter is set,
\* so every entry passes it; filteredLogs.slice(offset, offset + limit)
getAuditLogs(logs, limit, offset) ==
    LET total == Len(logs)
        end == IF offset + limit < total THEN offset + limit ELSE total
    IN  [logs |-> SubSeq(logs, offset + 1, end), total |-> total]

Limits == {1, 50}
Offsets == {0, 1}

InitAudit == CoreIdle /\ AdminIdle /\ AuditIdle /\ RateIdle /\ ContactIdle

\* AuditLogger.log(entry); the entry is named by its order of logging.  A run
\* reads the log once, after its log calls.
Log ==
    /\ logCount < MaxAuditLogs + MaxExtraLogs
    /\ response = NoResponse
    /\ auditLogs' = log(auditLogs, logCount + 1)
    /\ logCount' = logCount + 1
    /\ UNCHANGED <<coreVars, adminVars, rateVars, contactVars>>

\* AuditLogger.getAuditLogs(limit, offset, {})
GetAuditLogs ==
    /\ response = NoResponse
    /\ \E limit \in Limits, offset \in Offsets :
           /\ request' = [NoRequest EXCEPT !.limit = limit, !.offset = offset]
           /\ \E r \in {getAuditLogs(auditLogs, limit, offset)} :
                  response' = [status |-> 200, logs |-> r.logs, total |-> r.total]
    /\ UNCHANGED <<coreVars, stage, handled, auditVars, rateVars, contactVars>>

NextAudit == Log \/ GetAuditLogs

SpecAudit == InitAudit /\ [][NextAudit]_vars

-----------------------------------------------------------------------------
(* Admin requests: middleware, isAdminAuthenticated and the handlers of    *)
(* the routes under /api/admin/                                            *)

ApiAdminPrefix == <<"/", "a", "p", "i", "/", "a", "d", "m", "i", "n", "/">>
ApiAdminDashPrefix == <<"/", "a", "p", "i", "/", "a", "d", "m", "i", "n", "-">>
AdminPrefix == <<"/", "a", "d", "m", "i", "n">>
AdminLoginPrefix == <<"/", "a", "d", "m", "i", "n", "/", "l", "o", "g", "i", "n">>

AuditLogsPath == <<"/", "a", "p", "i", "/", "a", "d", "m", "i", "n", "/", "a", "u", "d", "i", "t", "-", "l", "o", "g", "s">>
StatusPath == <<"/", "a", "p", "i", "/", "a", "d", "m", "i", "n", "/", "s", "t", "a", "t", "u", "s">>

\* the paths of config.matcher that the application serves
Pathnames ==
    { AuditLogsPath, StatusPath,
      <<"/", "a", "p", "i", "/", "a", "d", "m", "i", "n", "/", "l", "o", "g", "o", "u", "t">>,
      <<"/", "a", "p", "i", "/", "a", "d", "m", "i", "n", "-", "c", "l", "e", "a", "n", "u", "p", "-", "a", "s", "s", "o", "c", "i", "a", "t", "i", "o", "n", "s">>,
      <<"/", "a", "d", "m", "i", "n">>,
      <<"/", "a", "d", "m", "i", "n", "/", "l", "o", "g", "i", "n">> }

\* what a request can carry for a token: nothing, a token signed by
\* createAdminToken and not expired, a token with another signature, an
\* expired token
Tokens == {"none", "valid", "forged", "expired"}

\* the audit entries logged before the request arrives
MaxSeedLogs == 2

Requests ==
    [pathname : Pathnames, cookie : Tokens, bearer : Tokens,
     limit : Limits, offset : Offsets]

\* verifyAdminToken: jwtVerify returns the payload of a token it accepts and
\* throws on any other, which gives null; TRUE stands for a session
verifyAdminToken(token) == token = "valid"

\* isAdminAuthenticated: cookie 'admin-token', or else the Bearer token
isAdminAuthenticated(req) ==
    LET token == IF req.cookie # "none" THEN req.cookie ELSE req.bearer
    IN  IF token = "none" THEN FALSE ELSE verifyAdminToken(token)

getAdminSession(req) == isAdminAuthenticated(req)

\* middleware(request): "next", "redirect" (to /admin/login) or "401"
middleware(req) ==
    LET pathname == req.pathname
        isAdminRoute == /\ StartsWith(pathname, AdminPrefix)
                        /\ ~StartsWith(pathname, AdminLoginPrefix)
        isAdminApiRoute == StartsWith(pathname, ApiAdminDashPrefix)
    IN  IF StartsWith(pathname, ApiAdminPrefix) THEN "next"
        ELSE IF isAdminRoute \/ isAdminApiRoute
             THEN IF ~getAdminSession(req)
                  THEN IF isAdminRoute THEN "redirect" ELSE "401"
                  ELSE "next"
             ELSE "next"

InitAdmin ==
    /\ CoreIdle
    /\ RateIdle
    /\ ContactIdle
    /\ request \in Requests
    /\ stage = "received"
    /\ handled = FALSE
    /\ response = NoResponse
    /\ logCount \in 0..MaxSeedLogs
    /\ auditLogs = [i \in 1..logCount |-> logCount - i + 1]

\* the middleware runs on the request
Middleware ==
    /\ stage = "received"
    /\ \E r \in {middleware(request)} :
           \/ /\ r = "next"
              /\ stage' = "handler"
              /\ UNCHANGED response
           \/ /\ r = "redirect"
              /\ stage' = "responded"
              /\ response' = [NoResponse EXCEPT !.status = 307]
           \/ /\ r = "401"
              /\ stage' = "responded"
              /\ response' = [NoResponse EXCEPT !.status = 401]
    /\ UNCHANGED <<coreVars, request, handled, auditVars, rateVars, contactVars>>

\* GET /api/admin/audit-logs
AuditLogsGET ==
    /\ stage = "handler"
    /\ request.pathname = AuditLogsPath
    /\ \E r \in {getAuditLogs(auditLogs, request.limit, request.offset)} :
           response' = [status |-> 200, logs |-> r.logs, total |-> r.total]
    /\ handled' = TRUE
    /\ stage' = "responded"
    /\ UNCHANGED <<coreVars, request, auditVars, rateVars, contactVars>>

\* any other route of the matcher: its handler or page runs
OtherRoute ==
    /\ stage = "handler"
    /\ request.pathname # AuditLogsPath
    /\ response' = [NoResponse EXCEPT !.status = 200]
    /\ handled' = TRUE
    /\ stage' = "responded"
    /\ UNCHANGED <<coreVars, request, auditVars, rateVars, contactVars>>

NextAdmin == Middleware \/ AuditLogsGET \/ OtherRoute

SpecAdmin == InitAdmin /\ [][NextAdmin]_vars

-----------------------------------------------------------------------------
(* Claims about the admin routes (under SpecAdmin)                         *)

\* C16: a request to an endpoint under /api/admin/ without a valid admin token
\* never reaches the endpoint's handler, and only a request with a valid admin
\* session obtains audit logs.
AdminApiRequiresToken ==
    /\ (handled /\ StartsWith(request.pathname, ApiAdminPrefix))
           => isAdminAuthenticated(request)
    /\ response.logs # <<>> => isAdminAuthenticated(request)

-----------------------------------------------------------------------------
(* Claims about the audit log (under SpecAudit)                            *)

\* C19: after any sequence of log calls the audit log holds at most 1000
\* entries, newest first, and they are exactly the most recent min(n, 1000)
\* entries logged; what getAuditLogs returns is a slice of that order.
AuditLogNewestBounded ==
    /\ Len(auditLogs) <= 1000
    /\ Len(auditLogs) = (IF logCount < 1000 THEN logCount ELSE 1000)
    /\ \A i \in 1..Len(auditLogs) : auditLogs[i] = logCount - i + 1
    /\ response # NoResponse =>
           /\ response.total = Len(auditLogs)
           /\ \A k \in 1..Len(response.logs) :
                  response.logs[k] = logCount - request.offset - k + 1

\* C19 witness: more than 1000 entries have been logged, the store holds the
\* 1000 newest, and a page of it read at an offset starts at the second newest
AuditLogFullWitness ==
    /\ logCount > 1000
    /\ Len(auditLogs) = 1000
    /\ auditLogs[1] = logCount
    /\ auditLogs[1000] = logCount - 999
    /\ response # NoResponse
    /\ request.offset = 1
    /\ Len(response.logs) = 50
    /\ response.logs[1] = logCount - 1

-----------------------------------------------------------------------------
(* checkRateLimit                                                          *)

RATE_LIMITS ==
    [CREATE_USER |-> [requests |-> 5, windowMs |-> 60000],
     BULK_UPLOAD |-> [requests |-> 2, windowMs |-> 300000],
     SEARCH_ORG |-> [requests |-> 10, windowMs |-> 60000]]

Actions == {"CREATE_USER", "BULK_UPLOAD", "SEARCH_ORG"}

\* requests.filter(timestamp => timestamp > windowStart)
RECURSIVE FilterAfter(_, _)
FilterAfter(requests, windowStart) ==
    IF requests = <<>> THEN <<>>
    ELSE IF Head(requests) > windowStart
         THEN <<Head(requests)>> \o FilterAfter(Tail(requests), windowStart)
         ELSE FilterAfter(Tail(requests), windowStart)

\* Math.max(0, x)
NonNegative(x) == IF x < 0 THEN 0 ELSE x

\* checkRateLimit(key, action) at Date.now() = at: what it returns, and the
\* store afterwards
checkRateLimit(store, key, action, at) ==
    LET limit == RATE_LIMITS[action]
        windowStart == at - limit.windowMs
        requests == store[key]
        validRequests == FilterAfter(requests, windowStart)
        allowed == Len(validRequests) < limit.requests
        pushed == IF allowed THEN Append(validRequests, at) ELSE validRequests
    IN  [allowed |-> allowed,
         remaining |-> NonNegative(limit.requests - Len(pushed)
                                       - (IF allowed THEN 1 ELSE 0)),
         store |-> IF allowed THEN [store EXCEPT ![key] = pushed] ELSE store]

\* the calls of a run
MaxCalls == 4

\* the time that passes before a call, in ms: none, the short windows, and
\* what is left of the long window after a short one
Delays == {0, 60000, 240000}

InitRateLimit == CoreIdle /\ AdminIdle /\ AuditIdle /\ RateIdle /\ ContactIdle

\* checkRateLimit(key, action), called delay ms after the call before
CheckRateLimit ==
    /\ callCount < MaxCalls
    /\ \E key \in Keys, action \in Actions, delay \in Delays :
           \E r \in {checkRateLimit(rateLimitStore, key, action, now + delay)} :
               /\ now' = now + delay
               /\ rateLimitStore' = r.store
               /\ rateResult' = [allowed |-> r.allowed, remaining |-> r.remaining]
               /\ rateCalls' = Append(rateCalls,
                                      [key |-> key, action |-> action,
                                       at |-> now + delay, allowed |-> r.allowed])
               /\ allowedCalls' =
                      IF r.allowed
                      THEN Append(allowedCalls,
                                  [key |-> key, action |-> action, at |-> now + delay])
                      ELSE allowedCalls
    /\ callCount' = callCount + 1
    /\ UNCHANGED <<coreVars, adminVars, auditVars, contactVars>>

NextRateLimit == CheckRateLimit

SpecRateLimit == InitRateLimit /\ [][NextRateLimit]_vars

-----------------------------------------------------------------------------
(* Claims about checkRateLimit (under SpecRateLimit)                       *)

\* the allowed calls of the same key and action as the i-th allowed call, in
\* the window that ends with it
AllowedInWindow(i) ==
    LET c == allowedCalls[i]
    IN  {j \in 1..Len(allowedCalls) :
            /\ allowedCalls[j].key = c.key
            /\ allowedCalls[j].action = c.action
            /\ allowedCalls[j].at <= c.at
            /\ allowedCalls[j].at > c.at - RATE_LIMITS[c.action].windowMs}

\* C17: for every client key and action A, whatever the actions and the
\* non-decreasing times of the client's calls, at most RATE_LIMITS[A].requests
\* calls for A are allowed within any interval of RATE_LIMITS[A].windowMs.
AllowedWithinLimit ==
    \A i \in 1..Len(allowedCalls) :
        Cardinality(AllowedInWindow(i))
            <= RATE_LIMITS[allowedCalls[i].action].requests

\* the latest call to checkRateLimit
LastCall == rateCalls[Len(rateCalls)]

\* the calls before the latest one that have its key and its action
RECURSIVE SameActionCalls(_, _)
SameActionCalls(calls, c) ==
    IF calls = <<>> THEN <<>>
    ELSE IF Head(calls).key = c.key /\ Head(calls).action = c.action
         THEN <<Head(calls)>> \o SameActionCalls(Tail(calls), c)
         ELSE SameActionCalls(Tail(calls), c)

\* the store after the calls have been made, one after the other, from store
RECURSIVE StoreAfter(_, _)
StoreAfter(store, calls) ==
    IF calls = <<>> THEN store
    ELSE StoreAfter(checkRateLimit(store, Head(calls).key, Head(calls).action,
                                   Head(calls).at).store,
                    Tail(calls))

\* whether the latest call is allowed when the client has made no call for
\* another action
AllowedAlone ==
    LET c == LastCall
        before == SameActionCalls(SubSeq(rateCalls, 1, Len(rateCalls) - 1), c)
    IN  checkRateLimit(StoreAfter([k \in Keys |-> <<>>], before),
                       c.key, c.action, c.at).allowed

\* C22: rate limits of different actions are independent for one client: the
\* outcome of checkRateLimit(key, B) is what it would be had the client made
\* none of its earlier calls checkRateLimit(key, A) for A # B.
RateLimitsIndependent ==
    rateCalls # <<>> => (LastCall.allowed <=> AllowedAlone)

\* how many further calls checkRateLimit(key, action) at the time at would be
\* allowed, made one after the other from store
RECURSIVE FurtherAllowed(_, _, _, _)
FurtherAllowed(store, key, action, at) ==
    LET r == checkRateLimit(store, key, action, at)
    IN  IF r.allowed THEN 1 + FurtherAllowed(r.store, key, action, at) ELSE 0

\* C23: the 'remaining' value returned by checkRateLimit is the number of
\* further requests of the same action that the client could make immediately
\* and still be allowed.
RemainingIsFurtherAllowed ==
    rateCalls # <<>> =>
        rateResult.remaining
            = FurtherAllowed(rateLimitStore, LastCall.key, LastCall.action, now)

-----------------------------------------------------------------------------
(* createContact, and the handlers that call it: POST /api/create-user     *)
(* and the bulk upload                                                     *)

\* the users of a bulk upload
MaxUsers == 2

\* a user by what its data passes: "ok" passes validateUser and validateEmail,
\* "blank" lacks a required field, "shortTld" has an email that passes the
\* pattern of validateUser and not that of validateEmail
UserKinds == {"ok", "blank", "shortTld"}

\* validateUser(user, index).valid
validateUser(user) == user # "blank"

\* validateEmail(user.email) does not throw
validateEmail(user) == user = "ok"

\* the properties of the create call, with the email among them
basicContactPropertiesWithEmail ==
    {"firstname", "lastname", "active_in_okta", "lifecyclestage", "email"}

\* basicContactProperties: the properties of the create call
basicContactProperties ==
    {"firstname", "lastname", "active_in_okta", "lifecyclestage"}

\* updateProperties: the email, and the company name when there is one
updateProperties(org) ==
    {"email"} \cup (IF org.name # <<>> THEN {"company"} ELSE {})

\* hasAnySuccess ? 200 : 207
bulkStatusCode(res) == IF res.successful > 0 THEN 200 ELSE 207

\* the client of the bulk upload
BulkClient == "client1"

\* companyId and companyName as the caller gives them: each is there or not
Organizations == [id : {"none", "c1"}, name : {<<>>, <<"A", "c", "m", "e">>}]

UserLists == UNION {[1..n -> UserKinds] : n \in 0..MaxUsers}

\* the client of the POST /api/create-user request
PostClient == "client2"

\* the body of a POST /api/create-user request by what it passes: the kinds
\* of a bulk user ("blank" fails validateRequiredFields, "shortTld" fails
\* validateEmail), "badName" has a digit in firstName and fails
\* validateAndSanitizeInput, "noJson" makes request.json() throw
PostBodies == UserKinds \cup {"badName", "noJson"}

\* body.organizationName, trimmed
OrganizationNames == {<<"A", "c", "m", "e", " ", "I", "n", "c">>, <<"A", "c", "m", "e">>, <<"Z", "y", "l", "o">>}

\* the names of the companies in the CRM
CrmCompanyNames == {<<"A", "c", "m", "e", " ", "C", "o", "r", "p", "o", "r", "a", "t", "i", "o", "n">>, <<"A", "c", "m", "e", " ", "I", "n", "c">>, <<"Z", "y", "l", "o", " ", "S", "y", "s", "t", "e", "m", "s">>}

\* the companies on the page that getPage returns
MaxPage == 2

\* the ids of the companies of the CRM, in the order of the page
CompanyIds == <<"c1", "c2", "c3">>

CrmPages ==
    {[i \in 1..Len(names) |-> [id |-> CompanyIds[i], name |-> names[i]]] :
        names \in UNION {[1..n -> CrmCompanyNames] : n \in 0..MaxPage}}

\* the client key has made prior allowed calls for action, all at time 0
PriorCalls(key, action, prior) ==
    /\ rateLimitStore =
           [k \in Keys |-> IF k = key THEN [i \in 1..prior |-> 0] ELSE <<>>]
    /\ allowedCalls =
           [i \in 1..prior |-> [key |-> key, action |-> action, at |-> 0]]
    /\ rateCalls =
           [i \in 1..prior |->
               [key |-> key, action |-> action, at |-> 0, allowed |-> TRUE]]
    /\ callCount = prior
    /\ now = 0
    /\ rateResult = [allowed |-> FALSE, remaining |-> 0]

\* a call of createContact(firstName, lastName, email, companyId?,
\* companyName?), or a bulk upload request of a client that has made 0, 1 or 2
\* bulk uploads at the same time before, or a POST /api/create-user request
\* of a client that has made no, 4 or 5 such requests at the same time before;
\* HUBSPOT_ACCESS_TOKEN is set
InitContacts ==
    /\ AdminIdle /\ AuditIdle
    /\ organization \in Organizations
    /\ \/ /\ handler = "single"
          /\ users = <<"ok">>
          /\ RateIdle
          /\ CoreIdle /\ crmCompanies = <<>>
       \/ /\ handler = "bulk"
          /\ users \in UserLists
          /\ \E prior \in 0..RATE_LIMITS.BULK_UPLOAD.requests :
                 PriorCalls(BulkClient, "BULK_UPLOAD", prior)
          /\ CoreIdle /\ crmCompanies = <<>>
       \/ /\ handler = "post"
          /\ users \in [1..1 -> PostBodies]
          /\ \E prior \in {0, RATE_LIMITS.CREATE_USER.requests - 1,
                            RATE_LIMITS.CREATE_USER.requests} :
                 PriorCalls(PostClient, "CREATE_USER", prior)
          /\ searchTerm \in OrganizationNames
          /\ crmCompanies \in CrmPages
          /\ done = {}
          /\ companies = <<>> /\ matched = <<>> /\ bestScore = <<0, 1>>
          /\ normalizedSearch = <<>> /\ normalizedNames = <<>>
          /\ similarities = <<>> /\ scores = <<>> /\ ranked = <<>>
          /\ base = <<>> /\ words = <<>> /\ name = <<>>
          /\ normalized = <<>> /\ renormalized = <<>>
          /\ str1 = <<>> /\ str2 = <<>>
          /\ similarity = <<0, 1>> /\ swapped = <<0, 1>>
    /\ step = "received"
    /\ userIndex = (IF handler = "bulk" THEN 0 ELSE 1)
    /\ apiResponse = [id |-> 0]
    /\ crmCalls = <<>> /\ contacts = {}
    /\ result = [successful |-> 0, failed |-> 0]
    /\ httpStatus = 0

\* a CRM call as it is issued, for the user of row userIndex
Call(op, properties) ==
    [op |-> op, row |-> userIndex, properties |-> properties,
     outcome |-> "pending"]

\* the outcome of the call that is awaited
Returned(outcome) ==
    [crmCalls EXCEPT ![Len(crmCalls)].outcome = outcome]

\* what a CRM call throws: an error with the status of the response, or
\* without a response and with a code
CrmErrors ==
    {[status |-> 409, code |-> "none"], [status |-> 502, code |-> "none"],
     [status |-> 418, code |-> "none"], [status |-> 0, code |-> "ENOTFOUND"],
     [status |-> 0, code |-> "none"]}

\* handleHubSpotError(error).statusCode
handleHubSpotError(error) ==
    IF error.status # 0
    THEN IF error.status \in {400, 401, 403, 404, 409, 429} THEN error.status
         ELSE IF error.status \in {500, 502, 503} THEN 503
         ELSE error.status
    ELSE IF error.code \in {"ENOTFOUND", "ECONNREFUSED"} THEN 503
    ELSE 500

\* the audit log after AuditLogger.log of each of the entries, in order
RECURSIVE LogAll(_, _)
LogAll(logs, entries) ==
    IF entries = <<>> THEN logs
    ELSE LogAll(log(logs, Head(entries)), Tail(entries))

\* the entry of AuditLogger.logUserCreation(..., success, ...)
UserCreationEntry(success) == [action |-> "CREATE_USER", success |-> success]

\* POST /api/create-user sends its response, having logged the entries
PostAnswer(status, entries) ==
    /\ step' = "responded"
    /\ httpStatus' = status
    /\ auditLogs' = LogAll(auditLogs, entries)
    /\ logCount' = logCount + Len(entries)

\* bulk: the loop goes on with the next user, or ends and the response is sent
BulkContinue(res) ==
    /\ result' = res
    /\ UNCHANGED auditVars
    /\ IF userIndex < Len(users)
       THEN /\ userIndex' = userIndex + 1
            /\ step' = "loop"
            /\ UNCHANGED httpStatus
       ELSE /\ step' = "responded"
            /\ httpStatus' = bulkStatusCode(res)
            /\ UNCHANGED userIndex

\* createContact returns the contact (single), or { success: true } and the
\* loop counts it (bulk), or the contact and POST logs the creation and
\* answers 201 (post)
Succeed ==
    IF handler = "bulk"
    THEN BulkContinue([result EXCEPT !.successful = @ + 1])
    ELSE /\ result' = [result EXCEPT !.successful = @ + 1]
         /\ UNCHANGED userIndex
         /\ IF handler = "post"
            THEN PostAnswer(201, <<UserCreationEntry(TRUE)>>)
            ELSE step' = "returned" /\ UNCHANGED <<httpStatus, auditVars>>

\* createContact throws (single), or returns { success: false } and the loop
\* counts it (bulk), or throws and POST logs the failure where it catches
\* createError and again in its outer catch, and answers with the status of
\* handleHubSpotError (post)
Fail ==
    IF handler = "bulk"
    THEN BulkContinue([result EXCEPT !.failed = @ + 1])
    ELSE /\ result' = [result EXCEPT !.failed = @ + 1]
         /\ UNCHANGED userIndex
         /\ IF handler = "post"
            THEN \E error \in CrmErrors :
                     PostAnswer(handleHubSpotError(error),
                                <<UserCreationEntry(FALSE), UserCreationEntry(FALSE)>>)
            ELSE step' = "returned" /\ UNCHANGED <<httpStatus, auditVars>>

\* bulk POST up to the loop: the rate limit check and the validation of the
\* body (the list is within BULK_UPLOAD_LIMITS.MAX_USERS)
BulkReceive ==
    /\ handler = "bulk" /\ step = "received"
    /\ \E r \in {checkRateLimit(rateLimitStore, BulkClient, "BULK_UPLOAD", now)} :
           /\ rateLimitStore' = r.store
           /\ rateResult' = [allowed |-> r.allowed, remaining |-> r.remaining]
           /\ rateCalls' = Append(rateCalls,
                                  [key |-> BulkClient, action |-> "BULK_UPLOAD",
                                   at |-> now, allowed |-> r.allowed])
           /\ callCount' = callCount + 1
           /\ allowedCalls' =
                  IF r.allowed
                  THEN Append(allowedCalls,
                           [key |-> BulkClient, action |-> "BULK_UPLOAD", at |-> now])
                  ELSE allowedCalls
           /\ IF ~r.allowed
              THEN step' = "responded" /\ httpStatus' = 429 /\ UNCHANGED userIndex
              ELSE IF \/ users = <<>>
                      \/ organization.id = "none" \/ organization.name = <<>>
                   THEN step' = "responded" /\ httpStatus' = 400
                        /\ UNCHANGED userIndex
                   ELSE step' = "loop" /\ userIndex' = 1 /\ UNCHANGED httpStatus
    /\ UNCHANGED <<coreVars, adminVars, auditVars, now, handler, users,
                   organization, crmCompanies, apiResponse, crmCalls, contacts, result>>

\* bulk: one turn of the loop up to its first await: validateUser, then
\* createContact up to the create call
BulkUser ==
    /\ handler = "bulk" /\ step = "loop"
    /\ IF validateUser(users[userIndex]) /\ validateEmail(users[userIndex])
       THEN /\ crmCalls' = Append(crmCalls, Call("create", basicContactProperties))
            /\ step' = "creating"
            /\ UNCHANGED <<userIndex, result, httpStatus, auditVars>>
       ELSE /\ Fail
            /\ UNCHANGED crmCalls
    /\ UNCHANGED <<coreVars, adminVars, rateVars, handler, users,
                   organization, crmCompanies, apiResponse, contacts>>

\* single: createContact up to the create call
SingleCreate ==
    /\ handler = "single" /\ step = "received"
    /\ crmCalls' = Append(crmCalls, Call("create", basicContactProperties))
    /\ step' = "creating"
    /\ UNCHANGED <<coreVars, adminVars, auditVars, rateVars, handler, users,
                   organization, crmCompanies, userIndex, apiResponse, contacts, result,
                   httpStatus>>

\* the create call returns an id, returns without an id, or throws; with an
\* id the update is issued
CreateReturns ==
    /\ step = "creating"
    /\ \E outcome \in {"id", "noId", "throws"} :
           /\ \/ /\ outcome = "id"
                 /\ \E id \in {Cardinality(contacts) + 1} :
                        /\ apiResponse' = [id |-> id]
                        /\ contacts' = contacts \cup
                               {[id |-> id, email |-> FALSE, associated |-> "none"]}
                 /\ crmCalls' = Append(Returned(outcome),
                                       Call("update", updateProperties(organization)))
                 /\ step' = "updating"
                 /\ UNCHANGED <<userIndex, result, httpStatus, auditVars>>
              \/ /\ outcome = "noId"
                 /\ apiResponse' = [id |-> 0]
                 /\ crmCalls' = Returned(outcome)
                 /\ UNCHANGED contacts
                 /\ Succeed
              \/ /\ outcome = "throws"
                 /\ apiResponse' = [id |-> 0]
                 /\ crmCalls' = Returned(outcome)
                 /\ UNCHANGED contacts
                 /\ Fail
    /\ UNCHANGED <<coreVars, adminVars, rateVars, handler, users,
                   organization, crmCompanies>>

\* the contacts after the one with the id of apiResponse got value in field
WithContact(field, value) ==
    {IF c.id = apiResponse.id
     THEN [c EXCEPT ![field] = value] ELSE c : c \in contacts}

\* the update call returns or throws; when it has returned and there is a
\* company id, the association is issued
UpdateReturns ==
    /\ step = "updating"
    /\ \E outcome \in {"ok", "throws"} :
           \/ /\ outcome = "ok"
              /\ contacts' = WithContact("email", TRUE)
              /\ IF organization.id # "none" /\ apiResponse.id # 0
                 THEN /\ crmCalls' = Append(Returned(outcome),
                                            Call("associate", {organization.id}))
                      /\ step' = "associating"
                      /\ UNCHANGED <<userIndex, result, httpStatus, auditVars>>
                 ELSE /\ crmCalls' = Returned(outcome)
                      /\ Succeed
           \/ /\ outcome = "throws"
              /\ crmCalls' = Returned(outcome)
              /\ UNCHANGED contacts
              /\ Fail
    /\ UNCHANGED <<coreVars, adminVars, rateVars, handler, users,
                   organization, crmCompanies, apiResponse>>

\* an association call whose failure fails the creation
AssociateReturnsOrFails ==
    /\ step = "associating"
    /\ \E outcome \in {"ok", "throws"} :
           /\ crmCalls' = Returned(outcome)
           /\ IF outcome = "ok"
              THEN contacts' = WithContact("associated", organization.id) /\ Succeed
              ELSE UNCHANGED contacts /\ Fail
    /\ UNCHANGED <<coreVars, adminVars, rateVars, handler, users,
                   organization, crmCompanies, apiResponse>>

\* the association call returns, or throws and the error is logged
AssociateReturns ==
    /\ step = "associating"
    /\ \E outcome \in {"ok", "throws"} :
           /\ crmCalls' = Returned(outcome)
           /\ contacts' = IF outcome = "ok"
                          THEN WithContact("associated", organization.id)
                          ELSE contacts
    /\ Succeed
    /\ UNCHANGED <<coreVars, adminVars, rateVars, handler, users,
                   organization, crmCompanies, apiResponse>>

\* str.includes(searchString)
Includes(str, searchString) ==
    \E i \in 0..(Len(str) - Len(searchString)) :
        SubSeq(str, i + 1, i + Len(searchString)) = searchString

\* results.filter(result => name.toLowerCase().includes(searchTerm.toLowerCase()))
RECURSIVE FilterIncluding(_, _)
FilterIncluding(results, term) ==
    IF results = <<>> THEN <<>>
    ELSE IF Includes(ToLowerCase(Head(results).name), ToLowerCase(term))
         THEN <<Head(results)>> \o FilterIncluding(Tail(results), term)
         ELSE FilterIncluding(Tail(results), term)

\* searchCompanies(searchTerm) when getPage has returned results
searchCompanies(results, term) == Slice(FilterIncluding(results, term), 10)

\* POST /api/create-user up to its first CRM call: the rate limit check, the
\* body and its validation, then searchCompanies up to getPage when no
\* companyId came with the request, else createContact up to the create call
PostReceive ==
    /\ handler = "post" /\ step = "received"
    /\ \E r \in {checkRateLimit(rateLimitStore, PostClient, "CREATE_USER", now)} :
           /\ rateLimitStore' = r.store
           /\ rateResult' = [allowed |-> r.allowed, remaining |-> r.remaining]
           /\ rateCalls' = Append(rateCalls,
                                  [key |-> PostClient, action |-> "CREATE_USER",
                                   at |-> now, allowed |-> r.allowed])
           /\ callCount' = callCount + 1
           /\ allowedCalls' =
                  IF r.allowed
                  THEN Append(allowedCalls,
                           [key |-> PostClient, action |-> "CREATE_USER", at |-> now])
                  ELSE allowedCalls
           /\ IF ~r.allowed
              THEN /\ PostAnswer(429, <<[action |-> "RATE_LIMIT_EXCEEDED",
                                         success |-> FALSE]>>)
                   /\ UNCHANGED crmCalls
              ELSE IF users[1] = "noJson"
              THEN /\ PostAnswer(400, <<>>)
                   /\ UNCHANGED crmCalls
              ELSE IF users[1] \in {"blank", "shortTld"}
              THEN /\ PostAnswer(400, <<UserCreationEntry(FALSE)>>)
                   /\ UNCHANGED crmCalls
              ELSE IF users[1] = "badName"
              THEN /\ PostAnswer(400, <<[action |-> "VALIDATION_ERROR",
                                         success |-> FALSE],
                                        UserCreationEntry(FALSE)>>)
                   /\ UNCHANGED crmCalls
              ELSE IF organization.id = "none" /\ searchTerm # <<>>
              THEN /\ step' = "searching"
                   /\ UNCHANGED <<crmCalls, httpStatus, auditVars>>
              ELSE /\ step' = "creating"
                   /\ crmCalls' = Append(crmCalls,
                                         Call("create", basicContactProperties))
                   /\ UNCHANGED <<httpStatus, auditVars>>
    /\ UNCHANGED <<coreVars, adminVars, now, handler, users, organization,
                   crmCompanies, userIndex, apiResponse, contacts, result>>

\* post: getPage returns the page, or throws and searchCompanies returns [];
\* findBestMatch on what searchCompanies returned; then createContact up to
\* the create call
SearchReturns ==
    /\ handler = "post" /\ step = "searching"
    /\ \E outcome \in {"page", "throws"} :
           \E found \in {IF outcome = "page"
                         THEN searchCompanies(crmCompanies, searchTerm)
                         ELSE <<>>} :
               \E r \in {findBestMatch(found, searchTerm)} :
                   /\ companies' = found
                   /\ matched' = r.returned
                   /\ bestScore' = r.bestScore
                   /\ normalizedSearch' = r.search
                   /\ normalizedNames' = r.names
                   /\ similarities' = r.sims
                   /\ scores' = r.scores
                   /\ organization' =
                          IF r.returned # <<>>
                          THEN [id |-> r.returned[1].id, name |-> r.returned[1].name]
                          ELSE organization
                   /\ done' = done \cup {"findBestMatch"}
                                   \cup (IF outcome = "page" THEN {"getPage"} ELSE {})
    /\ crmCalls' = Append(crmCalls, Call("create", basicContactProperties))
    /\ step' = "creating"
    /\ UNCHANGED <<searchTerm, ranked, normVars, simVars, adminVars, auditVars,
                   rateVars, handler, users, crmCompanies, userIndex, apiResponse,
                   contacts, result, httpStatus>>

NextContacts ==
    \/ BulkReceive
    \/ BulkUser
    \/ SingleCreate
    \/ PostReceive
    \/ SearchReturns
    \/ CreateReturns
    \/ UpdateReturns
    \/ AssociateReturns

SpecContacts == InitContacts /\ [][NextContacts]_vars

-----------------------------------------------------------------------------
(* Claims about the bulk upload handler and createContact (under           *)
(* SpecContacts)                                                           *)

\* the bulk handler has answered after its loop
BulkAnswered ==
    handler = "bulk" /\ step = "responded" /\ userIndex > 0

\* C18: the bulk upload handler answers a partially successful upload (some
\* user created, some user failed) with status 207 and a fully successful one
\* with 200.
PartialSuccessIsMultiStatus ==
    BulkAnswered =>
        /\ (result.successful > 0 /\ result.failed > 0) => httpStatus = 207
        /\ (result.successful > 0 /\ result.failed = 0) => httpStatus = 200

\* C20: in createContact, single and bulk, the contact is first created
\* without an email property; the update that sets the email is issued only
\* after the creation returned an id; the association is attempted only after
\* that update returned and only when there is a company id.
CrmCallsInOrder ==
    \A k \in 1..Len(crmCalls) :
        LET c == crmCalls[k]
            first == k = 1 \/ crmCalls[k - 1].row # c.row
        IN  /\ first <=> c.op = "create"
            /\ c.op = "create" => "email" \notin c.properties
            /\ c.op = "update" =>
                   /\ crmCalls[k - 1].op = "create"
                   /\ crmCalls[k - 1].outcome = "id"
                   /\ "email" \in c.properties
                   /\ ("company" \in c.properties) <=> organization.name # <<>>
            /\ c.op = "associate" =>
                   /\ crmCalls[k - 1].op = "update"
                   /\ crmCalls[k - 1].outcome = "ok"
                   /\ organization.id # "none"
                   /\ c.properties = {organization.id}
            /\ c.outcome = "pending" => k = Len(crmCalls)

\* C20 witness: a bulk upload of two users; the first is created, updated and
\* associated, the second is created and its update throws
CrmCallsWitness ==
    /\ BulkAnswered
    /\ Len(crmCalls) = 5
    /\ crmCalls[3].op = "associate" /\ crmCalls[3].outcome = "ok"
    /\ crmCalls[5].op = "update" /\ crmCalls[5].outcome = "throws"
    /\ result = [successful |-> 1, failed |-> 1]


\* the k-th CRM call is the last one of a createContact that returned: a
\* creation without an id, an update with no association to follow, or an
\* association, whether it returned or threw
EndsCreation(k) ==
    LET c == crmCalls[k]
    IN  \/ c.op = "create" /\ c.outcome = "noId"
        \/ c.op = "update" /\ c.outcome = "ok" /\ organization.id = "none"
        \/ c.op = "associate" /\ c.outcome \in {"ok", "throws"}

\* C21: a failure of the association call does not fail contact creation:
\* when the create and update calls succeed and the association call throws,
\* createContact still returns the created contact, POST /api/create-user
\* answers 201, and the bulk handler counts the user as successful.
AssociationFailureIsNotFatal ==
    /\ result.successful
           = Cardinality({k \in 1..Len(crmCalls) : EndsCreation(k)})
    /\ \A k \in 1..Len(crmCalls) :
           (crmCalls[k].op = "associate" /\ crmCalls[k].outcome = "throws") =>
               /\ crmCalls[k - 1].op = "update" /\ crmCalls[k - 1].outcome = "ok"
               /\ crmCalls[k - 2].op = "create" /\ crmCalls[k - 2].outcome = "id"
               /\ handler = "single" => (step = "returned" /\ apiResponse.id # 0)
               /\ handler = "post" => (step = "responded" /\ httpStatus = 201)

\* C21 witness: POST has found the company by its search, the contact is
\* created and updated, the association threw, and the answer is 201
AssociationFailedWitness ==
    /\ handler = "post" /\ step = "responded"
    /\ matched # <<>>
    /\ Len(crmCalls) = 3
    /\ crmCalls[3].op = "associate" /\ crmCalls[3].outcome = "throws"
    /\ httpStatus = 201
    /\ \E c \in contacts : c.email /\ c.associated = "none"


\* the companies of the fetched page whose normalized name equals the
\* normalized organization name
ExactMatchesOnPage ==
    {i \in 1..Len(crmCompanies) :
        normalizeCompanyName(crmCompanies[i].name)
            = normalizeCompanyName(searchTerm)}

\* C25: in POST /api/create-user without a provided companyId, when the
\* fetched page contains a company whose normalized name equals the
\* normalized organization name, the pre-filter of searchCompanies keeps it
\* and the contact is created with a company id to associate it with.
SearchKeepsExactMatch ==
    (handler = "post" /\ "getPage" \in done /\ ExactMatchesOnPage # {}) =>
        /\ \A i \in ExactMatchesOnPage :
               \E j \in 1..Len(companies) : companies[j] = crmCompanies[i]
        /\ organization.id # "none"
        /\ \A k \in 1..Len(crmCalls) :
               (crmCalls[k].op = "update" /\ crmCalls[k].outcome = "ok") =>
                   k < Len(crmCalls) /\ crmCalls[k + 1].op = "associate"

\* C26: whenever POST /api/create-user answers with an error, no contact
\* created by that request exists in the CRM.
PostErrorLeavesNoContact ==
    (handler = "post" /\ step = "responded" /\ httpStatus # 201) =>
        contacts = {}

====
